---- MODULE Spec2Model ----
(***************************************************************************)
(* A model of pyproxy: the wrapper (Proxy) of src/pyproxy/proxy.py, its    *)
(* dispatch of every intercepted operation onto a Handler registry or the  *)
(* target, the scoped-resource (enter/exit) protocol, iteration, and the   *)
(* unwrap helpers.                                                         *)
(*                                                                         *)
(* Python values are records [st, t, n, k, key, seq]:                      *)
(*   st  "ok" for a returned value, "raise" for a raised exception         *)
(*   t   the type tag (or the exception class when st = "raise")           *)
(*   n   a number: the payload of a plain value, the identity of a         *)
(*       context object, 1/0 for True/False                                *)
(*   k   which override produced the value (or why the error was raised)   *)
(*   key the key the override was registered under                         *)
(*   seq the elements an iterator/iterable will yield                      *)
(***************************************************************************)
EXTENDS Integers, Sequences, FiniteSets, TLC

\* ------------------------------------------------------------------ bounds
MaxCtx == 2        \* context objects the context override may produce
MaxBase == 2       \* objects that exist before anything is wrapped
MaxObjs == 4       \* objects in all, wrappers included
MaxCount == 2      \* enter/exit counts of one context object saturate here
MaxAcq == 3        \* acquires made on the wrappers of one history
MaxChain == 12     \* objects of a chain handed to proxy3's unwrap
MaxCtx3 == 4       \* context objects a proxy3 context override may produce

\* ------------------------------------------------------------- value space
R(st, t, n, k, key, seq) ==
    [st |-> st, t |-> t, n |-> n, k |-> k, key |-> key, seq |-> seq]

PlainVal(n) == R("ok", "val", n, "", "", <<>>)
CtxVal(id) == R("ok", "ctx", id, "", "", <<>>)
NoneVal == R("ok", "none", 0, "", "", <<>>)
BoolVal(b) == R("ok", "bool", IF b THEN 1 ELSE 0, "", "", <<>>)
StrVal(k) == R("ok", "str", 0, k, "", <<>>)
IterVal(s) == R("ok", "iterator", 0, "", "", s)
TargetRef == R("ok", "targetref", 0, "", "", <<>>)
HandlerRef == R("ok", "handlerref", 0, "", "", <<>>)
OvRet(kind, key) == R("ok", "ovret", 0, kind, key, <<>>)
OvIterable(s) == R("ok", "ovret", 0, "iterator", "", s)
BoundCall(key) == R("ok", "lambda", 0, "call", key, <<>>)
Raise(exc, why) == R("raise", exc, 0, why, "", <<>>)

Vals == {PlainVal(1)}

\* attribute names used as keys: two ordinary ones, the name of a wrapper
\* instance field, and the name the wrapper keeps its open context under
Keys == {"x", "z", "target", "_ctx"}

\* values asked for in a containment check; NonStr stands for a non-string
NonStr == "#7"
ContainArgs == {"a", "z", "q", NonStr}
IsStr(name) == name # NonStr

\* what the iterator override yields each time it is invoked
OvSeq == <<"i1", "i2">>

ItemKeys == {"i"}

VARIABLES
    kind,   \* the target's class: which native protocols it supports
    tgt,    \* the target's mutable state: attributes, items, entered/exited
    ctxs,   \* the context objects produced so far by the context override
    px,     \* per wrapper: handler, the strict argument, spoof flag, cursor
    obs,    \* what the last operation did and returned
    du,     \* the deep_unwrap / unwrap run in progress
    wr,     \* the wrap() call in progress: handler given, hooks, position
    hist    \* history: how many acquires and releases were made so far

vars == <<kind, tgt, ctxs, px, obs, du, wr, hist>>

\* --------------------------------------------------------------- utilities
Range(s) == {s[i] : i \in 1..Len(s)}
Cap(n) == IF n < MaxCount THEN n + 1 ELSE MaxCount
Put(f, name, v) == [n \in DOMAIN f \cup {name} |-> IF n = name THEN v ELSE f[n]]
Drop(f, name) == [n \in DOMAIN f \ {name} |-> f[n]]

\* ------------------------------------------- the target's native protocols
\* Each returns [ret, tgt]: the value or exception, and the target afterwards.
TGetattr(T, name) ==
    [ret |-> IF name \in DOMAIN T.attrs THEN T.attrs[name]
             ELSE Raise("AttributeError", "native"),
     tgt |-> T]

TSetattr(T, name, v) ==
    IF kind.hasdict
    THEN [ret |-> NoneVal, tgt |-> [T EXCEPT !.attrs = Put(@, name, v)]]
    ELSE [ret |-> Raise("AttributeError", "native"), tgt |-> T]

TDelattr(T, name) ==
    IF name \in DOMAIN T.attrs
    THEN [ret |-> NoneVal, tgt |-> [T EXCEPT !.attrs = Drop(@, name)]]
    ELSE [ret |-> Raise("AttributeError", "native"), tgt |-> T]

THasattr(T, name) == name \in DOMAIN T.attrs

\* `name in target`: membership by iteration; a target that cannot be
\* searched, or cannot compare the value, raises TypeError
TContains(T, name) ==
    [ret |-> IF ~kind.iterable THEN Raise("TypeError", "native")
             ELSE IF kind.membTE /\ ~IsStr(name) THEN Raise("TypeError", "native")
             ELSE BoolVal(name \in Range(kind.seq)),
     tgt |-> T]

TEnter(T) ==
    IF kind.cm
    THEN [ret |-> TargetRef, tgt |-> [T EXCEPT !.ent = TRUE]]
    ELSE [ret |-> Raise("TypeError", "native"), tgt |-> T]

TExit(T) ==
    IF kind.cm
    THEN [ret |-> NoneVal, tgt |-> [T EXCEPT !.exi = TRUE]]
    ELSE [ret |-> Raise("AttributeError", "native"), tgt |-> T]

TIter(T) ==
    [ret |-> IF kind.iterable THEN IterVal(kind.seq)
             ELSE Raise("TypeError", "native"),
     tgt |-> T]

\* the modelled targets are iterables, not iterators: next(target) fails
TNext(T) == [ret |-> Raise("TypeError", "native"), tgt |-> T]

TStr(T) == [ret |-> StrVal("str"), tgt |-> T]

TRepr(T) == [ret |-> StrVal("repr"), tgt |-> T]

TGetitem(T, key) ==
    [ret |-> IF ~kind.subscr THEN Raise("TypeError", "native")
             ELSE IF key \in DOMAIN T.items THEN T.items[key]
             ELSE Raise("KeyError", "native"),
     tgt |-> T]

TSetitem(T, key, v) ==
    IF kind.subscr
    THEN [ret |-> NoneVal, tgt |-> [T EXCEPT !.items = Put(@, key, v)]]
    ELSE [ret |-> Raise("TypeError", "native"), tgt |-> T]

TLen(T) ==
    [ret |-> IF kind.subscr THEN PlainVal(Len(kind.seq))
             ELSE Raise("TypeError", "native"),
     tgt |-> T]

\* other is "self" (the target itself) or "other" (some unrelated object)
TEq(T, other) == [ret |-> BoolVal(other = "self"), tgt |-> T]

TNe(T, other) == [ret |-> BoolVal(other # "self"), tgt |-> T]

TBool(T) ==
    [ret |-> IF kind.subscr THEN BoolVal(Len(kind.seq) > 0) ELSE BoolVal(TRUE),
     tgt |-> T]

\* ------------------------------------------------------------- the wrapper
\* A wrapper operation threads a machine state m = [tgt, ctxs, ev] and
\* returns [ret, m]. ev lists what the operation did: every native access to
\* the target (on = "target"), every override invoked (on = "override"),
\* every enter/exit of a produced context object (on = "ctx", id = which).
ElemVal(e) == R("ok", "elem", 0, "", e, <<>>)
EnterRet(id) == R("ok", "enterret", id, "", "", <<>>)
ExitRet(b) == R("ok", "exitret", IF b THEN 1 ELSE 0, "", "", <<>>)

Ev(m, on, e, id) == [m EXCEPT !.ev = Append(@, [on |-> on, e |-> e, id |-> id])]

Fail(m, exc, why) == [ret |-> Raise(exc, why), m |-> m]

\* a native operation performed on the target by the wrapper
Native(m, r, e) == [ret |-> r.ret, m |-> Ev([m EXCEPT !.tgt = r.tgt], "target", e, 0)]

\* an override invoked with the target; the modelled overrides leave the
\* target as it is and return a value that names them
Override(m, k, key) == [ret |-> OvRet(k, key), m |-> Ev(m, "override", k, 0)]

PROTECTED_FIELDS ==
    {"target", "handler", "__is_proxy__", "_iter", "__spoof_class__", "__strict__"}

\* the names wrap() binds on the instance
InstanceNames(p) ==
    {"target", "handler", "strict", "__is_proxy__", "_iter"}
        \cup (IF p.spoof THEN {"__spoof_class__"} ELSE {})

\* the dataclass defaults, which live on the class
ClassDefaultStrict == FALSE

\* self.__strict__: the instance attribute when the instance has one, the
\* class default otherwise
SelfStrict(p) ==
    IF "__strict__" \in InstanceNames(p) THEN p.strict ELSE ClassDefaultStrict

CheckStrict(p) == SelfStrict(p)

StrictError(m) == Fail(m, "AttributeError", "strict")

\* a dispatch that consults the read overrides before the call overrides
PGetattr_GetFirst(p, m, name) ==
    IF name \in p.handler.get THEN Override(m, "get", name)
    ELSE IF name \in p.handler.call THEN [ret |-> BoundCall(name), m |-> m]
    ELSE IF CheckStrict(p) THEN StrictError(m)
    ELSE Native(m, TGetattr(m.tgt, name), "getattr")

PGetattr(p, m, name) ==
    IF name \in p.handler.call THEN [ret |-> BoundCall(name), m |-> m]
    ELSE IF name \in p.handler.get THEN Override(m, "get", name)
    ELSE IF CheckStrict(p) THEN StrictError(m)
    ELSE Native(m, TGetattr(m.tgt, name), "getattr")

\* wrapper.name: object.__getattribute__ finds the wrapper's own attributes
\* first; __getattr__ runs only for names the wrapper does not have
SelfAttr(p, m, name) ==
    IF name \in InstanceNames(p)
    THEN [ret |-> CASE name = "target" -> TargetRef
                    [] name = "handler" -> HandlerRef
                    [] name = "strict" -> BoolVal(p.strict)
                    [] name = "_iter" -> IF p.iter.live THEN IterVal(p.iter.rest)
                                         ELSE NoneVal
                    [] OTHER -> BoolVal(TRUE),
          m |-> m]
    ELSE PGetattr(p, m, name)

\* wrapper.name(args): the read, then a call of what the read returned
PCallAttr(p, m, name) ==
    LET g == SelfAttr(p, m, name)
    IN IF g.ret.st = "raise" THEN g
       ELSE IF g.ret.t = "lambda" THEN Override(g.m, "call", g.ret.key)
       ELSE Fail(g.m, "TypeError", "notcallable")

\* a write that looks the name up in the registry before the protected check
PSetattr_LookupFirst(p, m, name, v) ==
    IF name \in p.handler.set THEN Override(m, "set", name)
    ELSE IF name \in PROTECTED_FIELDS THEN Fail(m, "AttributeError", "protected")
    ELSE IF CheckStrict(p) THEN StrictError(m)
    ELSE Native(m, TSetattr(m.tgt, name, v), "setattr")

PSetattr(p, m, name, v) ==
    IF name \in PROTECTED_FIELDS THEN Fail(m, "AttributeError", "protected")
    ELSE IF name \in p.handler.set THEN Override(m, "set", name)
    ELSE IF CheckStrict(p) THEN StrictError(m)
    ELSE Native(m, TSetattr(m.tgt, name, v), "setattr")

\* a delete that forgets the native fallback
PDelattr_NoFallback(p, m, name) ==
    IF name \in PROTECTED_FIELDS THEN Fail(m, "AttributeError", "protected")
    ELSE IF name \in p.handler.delete THEN Override(m, "delete", name)
    ELSE IF CheckStrict(p) THEN StrictError(m)
    ELSE [ret |-> NoneVal, m |-> m]

PDelattr(p, m, name) ==
    IF name \in PROTECTED_FIELDS THEN Fail(m, "AttributeError", "protected")
    ELSE IF name \in p.handler.delete THEN Override(m, "delete", name)
    ELSE IF CheckStrict(p) THEN StrictError(m)
    ELSE Native(m, TDelattr(m.tgt, name), "delattr")

\* a containment check that goes on to the attribute test whenever the
\* membership test did not find the value
PContains_FallThrough(p, m, name) ==
    IF p.handler.contain THEN Override(m, "contain", name)
    ELSE IF CheckStrict(p) THEN StrictError(m)
    ELSE LET c == TContains(m.tgt, name)
             found == kind.iterable /\ c.ret = BoolVal(TRUE)
             m1 == IF kind.iterable THEN Ev(m, "target", "contains", 0) ELSE m
         IN IF found THEN Native(m, c, "contains")
            ELSE IF IsStr(name)
                 THEN [ret |-> BoolVal(THasattr(m1.tgt, name)),
                       m |-> Ev(m1, "target", "hasattr", 0)]
            ELSE [ret |-> BoolVal(FALSE), m |-> m1]

PContains(p, m, name) ==
    IF p.handler.contain THEN Override(m, "contain", name)
    ELSE IF CheckStrict(p) THEN StrictError(m)
    ELSE LET c == TContains(m.tgt, name)
             viaIter == kind.iterable /\ ~(c.ret.st = "raise" /\ c.ret.t = "TypeError")
             m1 == IF kind.iterable THEN Ev(m, "target", "contains", 0) ELSE m
         IN IF viaIter THEN Native(m, c, "contains")
            ELSE IF IsStr(name)
                 THEN [ret |-> BoolVal(THasattr(m1.tgt, name)),
                       m |-> Ev(m1, "target", "hasattr", 0)]
            ELSE [ret |-> BoolVal(FALSE), m |-> m1]

\* the operations with one optional override and a native fallback
PSingle(p, m, has, k, r) ==
    IF has THEN Override(m, k, "")
    ELSE IF CheckStrict(p) THEN StrictError(m)
    ELSE Native(m, r, k)

PStr(p, m) == PSingle(p, m, p.handler.str, "str", TStr(m.tgt))

PRepr(p, m) == PSingle(p, m, p.handler.repr, "repr", TRepr(m.tgt))

PGetitem(p, m, key) == PSingle(p, m, p.handler.getitem, "getitem", TGetitem(m.tgt, key))

PSetitem(p, m, key, v) ==
    PSingle(p, m, p.handler.setitem, "setitem", TSetitem(m.tgt, key, v))

PLen(p, m) == PSingle(p, m, p.handler.len, "len", TLen(m.tgt))

PEq(p, m, other) == PSingle(p, m, p.handler.eq, "eq", TEq(m.tgt, other))

PNe(p, m, other) == PSingle(p, m, p.handler.ne, "ne", TNe(m.tgt, other))

PBool(p, m) == PSingle(p, m, p.handler.bool, "bool", TBool(m.tgt))

\* iter(v) of what the iterator override returned: a fresh iterator over it
PyIter(v) == IterVal(v.seq)

\* an iteration that hands out the next-element cursor once there is one
PIter_FromCursor(p, m) ==
    IF p.iter.live THEN [ret |-> IterVal(p.iter.rest), m |-> m]
    ELSE IF p.handler.iterator
    THEN [ret |-> PyIter(OvIterable(OvSeq)), m |-> Ev(m, "override", "iterator", 0)]
    ELSE IF CheckStrict(p) THEN StrictError(m)
    ELSE Native(m, TIter(m.tgt), "iter")

PIter(p, m) ==
    IF p.handler.iterator
    THEN LET o == [ret |-> OvIterable(OvSeq), m |-> Ev(m, "override", "iterator", 0)]
         IN [ret |-> PyIter(o.ret), m |-> o.m]
    ELSE IF CheckStrict(p) THEN StrictError(m)
    ELSE Native(m, TIter(m.tgt), "iter")

\* a next that asks for a new iterator once the cursor has run out
PNext_Refill(p, m) ==
    LET fresh == ~p.iter.live \/ p.iter.rest = <<>>
        it == IF fresh THEN PIter(p, m) ELSE [ret |-> IterVal(p.iter.rest), m |-> m]
    IN IF it.ret.st = "raise" THEN [ret |-> it.ret, m |-> it.m, iter |-> p.iter]
       ELSE LET cur == [live |-> TRUE, rest |-> it.ret.seq]
            IN IF cur.rest = <<>>
               THEN [ret |-> Raise("StopIteration", "native"), m |-> it.m, iter |-> cur]
               ELSE [ret |-> ElemVal(Head(cur.rest)), m |-> it.m,
                     iter |-> [cur EXCEPT !.rest = Tail(@)]]

\* next(wrapper): returns [ret, m, iter], iter being the cursor afterwards
PNext(p, m) ==
    LET fresh == ("_iter" \notin InstanceNames(p)) \/ ~p.iter.live
        it == IF fresh THEN PIter(p, m) ELSE [ret |-> IterVal(p.iter.rest), m |-> m]
    IN IF it.ret.st = "raise" THEN [ret |-> it.ret, m |-> it.m, iter |-> p.iter]
       ELSE LET cur == [live |-> TRUE, rest |-> it.ret.seq]
            IN IF CheckStrict(p)
               THEN [ret |-> Raise("AttributeError", "strict"), m |-> it.m, iter |-> cur]
               ELSE IF cur.rest = <<>>
               THEN [ret |-> Raise("StopIteration", "native"), m |-> it.m, iter |-> cur]
               ELSE [ret |-> ElemVal(Head(cur.rest)), m |-> it.m,
                     iter |-> [cur EXCEPT !.rest = Tail(@)]]

\* v.__enter__() for the value v the wrapper found under _ctx; enOut is what
\* the context object's enter does this time
CallEnter(m, v, enOut) ==
    IF v.t # "ctx" THEN Fail(m, "AttributeError", "noenter")
    ELSE LET m1 == Ev([m EXCEPT !.ctxs[v.n].ent = Cap(@)], "ctx", "enter", v.n)
         IN IF enOut = "raise" THEN Fail(m1, "EnterError", "ctx")
            ELSE [ret |-> EnterRet(v.n), m |-> m1]

\* v.__exit__(exc): exOut is what the context object's exit does this time
CallExit(m, v, exOut) ==
    IF v.t # "ctx" THEN Fail(m, "AttributeError", "noexit")
    ELSE LET m1 == Ev([m EXCEPT !.ctxs[v.n].exi = Cap(@)], "ctx", "exit", v.n)
         IN IF exOut = "raise" THEN Fail(m1, "ExitError", "ctx")
            ELSE [ret |-> ExitRet(exOut = "true"), m |-> m1]

\* ovOut is what the context override does this time
PEnter(p, m, ovOut, enOut) ==
    IF CheckStrict(p) THEN StrictError(m)
    ELSE IF p.handler.context
    THEN IF ovOut = "raise" THEN Fail(Ev(m, "override", "context", 0), "OvError", "context")
         ELSE LET id == Len(m.ctxs) + 1
                  m1 == Ev([m EXCEPT !.ctxs = Append(@, [ent |-> 0, exi |-> 0])],
                           "override", "context", id)
                  s == PSetattr(p, m1, "_ctx", CtxVal(id))
              IN IF s.ret.st = "raise" THEN s
                 ELSE LET g == SelfAttr(p, s.m, "_ctx")
                      IN IF g.ret.st = "raise" THEN g
                         ELSE CallEnter(g.m, g.ret, enOut)
    ELSE IF ~kind.cm THEN Fail(Ev(m, "target", "hasattr", 0), "TypeError", "nocm")
    ELSE Native(Ev(m, "target", "hasattr", 0), TEnter(m.tgt), "enter")

PExit(p, m, exOut) ==
    LET h == SelfAttr(p, m, "_ctx")
    IN IF h.ret.st = "ok"
       THEN LET g == SelfAttr(p, h.m, "_ctx")
                x == IF g.ret.st = "raise" THEN g ELSE CallExit(g.m, g.ret, exOut)
                d == PDelattr(p, x.m, "_ctx")
            IN IF d.ret.st = "raise" THEN d ELSE [ret |-> x.ret, m |-> d.m]
       ELSE IF CheckStrict(p) THEN StrictError(h.m)
       ELSE Native(h.m, TExit(h.m.tgt), "exit")

\* -------------------------------------------------------------- the inputs
NoAttrs == [n \in {} |-> NoneVal]

\* the registry: keyed overrides as the set of keys registered, single
\* overrides as present or not
NoOverrides ==
    [get |-> {}, set |-> {}, delete |-> {}, call |-> {},
     contain |-> FALSE, context |-> FALSE, iterator |-> FALSE, str |-> FALSE,
     repr |-> FALSE, getitem |-> FALSE, setitem |-> FALSE, len |-> FALSE,
     eq |-> FALSE, ne |-> FALSE, bool |-> FALSE]

AllOverrides ==
    [get |-> {"x", "z"}, set |-> {"x"}, delete |-> {"x"}, call |-> {"x"},
     contain |-> TRUE, context |-> TRUE, iterator |-> TRUE, str |-> TRUE,
     repr |-> TRUE, getitem |-> TRUE, setitem |-> TRUE, len |-> TRUE,
     eq |-> TRUE, ne |-> TRUE, bool |-> TRUE]

ContextOnly == [NoOverrides EXCEPT !.context = TRUE]

Handlers == {NoOverrides, AllOverrides}

\* the targets: an object like the tests' Sample (attributes, iterates over
\* a, b, c, a native context manager), a plain object that has an attribute
\* called target, and a str-like value (no attribute storage, iterable,
\* subscriptable, membership of a non-string raises TypeError)
SampleKind ==
    [name |-> "sample", hasdict |-> TRUE, iterable |-> TRUE, seq |-> <<"a", "b", "c">>,
     membTE |-> FALSE, subscr |-> FALSE, cm |-> TRUE]

PlainKind ==
    [name |-> "plain", hasdict |-> TRUE, iterable |-> FALSE, seq |-> <<>>,
     membTE |-> FALSE, subscr |-> FALSE, cm |-> FALSE]

StrKind ==
    [name |-> "str", hasdict |-> FALSE, iterable |-> TRUE, seq |-> <<"a", "b">>,
     membTE |-> TRUE, subscr |-> TRUE, cm |-> FALSE]

Kinds == {SampleKind, PlainKind, StrKind}

InitAttrs(K) ==
    CASE K.name = "sample" -> Put(Put(NoAttrs, "x", PlainVal(2)), "z", PlainVal(2))
      [] K.name = "plain" -> Put(Put(NoAttrs, "x", PlainVal(2)), "target", PlainVal(2))
      [] OTHER -> NoAttrs

InitItems(K) == IF K.subscr THEN Put(NoAttrs, "i", PlainVal(2)) ELSE NoAttrs

InitTarget(K) == [attrs |-> InitAttrs(K), items |-> InitItems(K), ent |-> FALSE, exi |-> FALSE]

NoCursor == [live |-> FALSE, rest |-> <<>>]

\* wrap(target, handler, strict=..., spoof_class=...): the wrapper it builds
NewProxy(h, strict, spoof) ==
    [handler |-> h, strict |-> strict, spoof |-> spoof, iter |-> NoCursor]

Wrappers == {1}

NoObs ==
    [w |-> 0, op |-> "none", name |-> "", ret |-> NoneVal, ev |-> <<>>,
     dret |-> NoneVal, dsame |-> TRUE, tsame |-> TRUE, matched |-> FALSE,
     strict |-> FALSE, cur0 |-> NoCursor, hadctx |-> FALSE, washeld |-> 0,
     held |-> [w \in Wrappers |-> 0]]

\* no wrap() call was made yet
NoWrap ==
    [pc |-> "idle", h |-> "valid", pre |-> "none", post |-> "none",
     bound |-> FALSE, log |-> <<>>, err |-> ""]

NoHist == [acq |-> 0, rel |-> 0]

NoRun == [heap |-> <<>>, pc |-> "idle", fn |-> "", start |-> 0, cur |-> 0,
          seen |-> {}, ret |-> 0, err |-> ""]

\* <<target, handler, strict>>: every target with every handler, and the
\* strict wrappers of the plain object
Scenarios ==
    (Kinds \X Handlers \X {FALSE}) \cup ({PlainKind} \X Handlers \X {TRUE})

InitWith(sc) ==
    /\ kind = sc[1]
    /\ tgt = InitTarget(sc[1])
    /\ ctxs = <<>>
    /\ px = [w \in Wrappers |-> NewProxy(sc[2], sc[3], FALSE)]
    /\ obs = NoObs
    /\ du = NoRun
    /\ wr = NoWrap
    /\ hist = NoHist

Init == \E sc \in Scenarios : InitWith(sc)

\* ------------------------------------------------------------- the actions
Start == [tgt |-> tgt, ctxs |-> ctxs, ev |-> <<>>]

\* history: what the wrapper acquired and has not released since: 0 for
\* nothing, the identity of the context object entered, -1 for the target
Held(before, op, ret) ==
    CASE op = "enter" -> IF ret.st = "raise" THEN before
                         ELSE IF ret.t = "enterret" THEN ret.n ELSE -1
      [] op = "exit" -> 0
      [] OTHER -> before

\* the operation op(name) on wrapper w gave r; d is what the same operation
\* gives when performed directly on the target. Apply is the operation
\* itself, Commit the operation with the acquire/release history left alone
Apply(w, op, name, r, d, matched, cursor) ==
    /\ tgt' = r.m.tgt
    /\ ctxs' = r.m.ctxs
    /\ px' = [px EXCEPT ![w].iter = cursor]
    /\ obs' = [w |-> w, op |-> op, name |-> name, ret |-> r.ret, ev |-> r.m.ev,
               dret |-> d.ret, dsame |-> (d.tgt = r.m.tgt), tsame |-> (r.m.tgt = tgt),
               matched |-> matched, strict |-> px[w].strict, cur0 |-> px[w].iter,
               hadctx |-> THasattr(tgt, "_ctx"), washeld |-> obs.held[w],
               held |-> [obs.held EXCEPT ![w] = Held(@, op, r.ret)]]
    /\ UNCHANGED <<kind, du, wr>>

Commit(w, op, name, r, d, matched, cursor) ==
    /\ Apply(w, op, name, r, d, matched, cursor)
    /\ UNCHANGED hist

\* target.name(args) performed directly
TCallAttr(T, name) ==
    LET g == TGetattr(T, name)
    IN IF g.ret.st = "raise" THEN g
       ELSE [ret |-> Raise("TypeError", "notcallable"), tgt |-> T]

GetAttr(w, name) ==
    Commit(w, "getattr", name, SelfAttr(px[w], Start, name), TGetattr(tgt, name),
           name \in px[w].handler.call \cup px[w].handler.get, px[w].iter)

CallAttr(w, name) ==
    Commit(w, "call", name, PCallAttr(px[w], Start, name), TCallAttr(tgt, name),
           name \in px[w].handler.call, px[w].iter)

SetAttr(w, name, v) ==
    Commit(w, "setattr", name, PSetattr(px[w], Start, name, v), TSetattr(tgt, name, v),
           name \in px[w].handler.set, px[w].iter)

DelAttr(w, name) ==
    Commit(w, "delattr", name, PDelattr(px[w], Start, name), TDelattr(tgt, name),
           name \in px[w].handler.delete, px[w].iter)

Contains(w, name) ==
    Commit(w, "contains", name, PContains(px[w], Start, name), TContains(tgt, name),
           px[w].handler.contain, px[w].iter)

Enter(w, ovOut, enOut) ==
    /\ px[w].handler.context => Len(ctxs) < MaxCtx
    /\ Commit(w, "enter", "", PEnter(px[w], Start, ovOut, enOut), TEnter(tgt),
              px[w].handler.context, px[w].iter)

Exit(w, exOut) ==
    Commit(w, "exit", "", PExit(px[w], Start, exOut), TExit(tgt),
           px[w].handler.context, px[w].iter)

Iter(w) ==
    Commit(w, "iter", "", PIter(px[w], Start), TIter(tgt),
           px[w].handler.iterator, px[w].iter)

NextElem(w) ==
    LET r == PNext(px[w], Start)
    IN Commit(w, "next", "", r, TNext(tgt), px[w].handler.iterator, r.iter)

Str(w) ==
    Commit(w, "str", "", PStr(px[w], Start), TStr(tgt), px[w].handler.str, px[w].iter)

Repr(w) ==
    Commit(w, "repr", "", PRepr(px[w], Start), TRepr(tgt), px[w].handler.repr, px[w].iter)

GetItem(w, key) ==
    Commit(w, "getitem", key, PGetitem(px[w], Start, key), TGetitem(tgt, key),
           px[w].handler.getitem, px[w].iter)

SetItem(w, key, v) ==
    Commit(w, "setitem", key, PSetitem(px[w], Start, key, v), TSetitem(tgt, key, v),
           px[w].handler.setitem, px[w].iter)

LenOf(w) ==
    Commit(w, "len", "", PLen(px[w], Start), TLen(tgt), px[w].handler.len, px[w].iter)

Eq(w, other) ==
    Commit(w, "eq", other, PEq(px[w], Start, other), TEq(tgt, other),
           px[w].handler.eq, px[w].iter)

Ne(w, other) ==
    Commit(w, "ne", other, PNe(px[w], Start, other), TNe(tgt, other),
           px[w].handler.ne, px[w].iter)

Truth(w) ==
    Commit(w, "bool", "", PBool(px[w], Start), TBool(tgt), px[w].handler.bool, px[w].iter)

Outcomes == {"ok", "raise"}
ExitOutcomes == {"true", "none", "raise"}
Others == {"self", "other"}

Next ==
    \/ \E w \in DOMAIN px, name \in Keys : GetAttr(w, name)
    \/ \E w \in DOMAIN px, name \in Keys : CallAttr(w, name)
    \/ \E w \in DOMAIN px, name \in Keys, v \in Vals : SetAttr(w, name, v)
    \/ \E w \in DOMAIN px, name \in Keys : DelAttr(w, name)
    \/ \E w \in DOMAIN px, name \in ContainArgs : Contains(w, name)
    \/ \E w \in DOMAIN px, ovOut \in Outcomes, enOut \in Outcomes : Enter(w, ovOut, enOut)
    \/ \E w \in DOMAIN px, exOut \in ExitOutcomes : Exit(w, exOut)
    \/ \E w \in DOMAIN px : Iter(w)
    \/ \E w \in DOMAIN px : NextElem(w)
    \/ \E w \in DOMAIN px : Str(w)
    \/ \E w \in DOMAIN px : Repr(w)
    \/ \E w \in DOMAIN px, key \in ItemKeys : GetItem(w, key)
    \/ \E w \in DOMAIN px, key \in ItemKeys, v \in Vals : SetItem(w, key, v)
    \/ \E w \in DOMAIN px : LenOf(w)
    \/ \E w \in DOMAIN px, other \in Others : Eq(w, other)
    \/ \E w \in DOMAIN px, other \in Others : Ne(w, other)
    \/ \E w \in DOMAIN px : Truth(w)

Spec == Init /\ [][Next]_vars

\* ---------------------------------------------------------------- helpers
\* how often the last operation did e on `on`
Did(on, e) == Cardinality({i \in 1..Len(obs.ev) : obs.ev[i].on = on /\ obs.ev[i].e = e})

\* how often the last operation accessed the target natively
Touched == Cardinality({i \in 1..Len(obs.ev) : obs.ev[i].on = "target"})

Last == px[obs.w]

\* ------------------------------------------------------------------ C1
ListedOps ==
    {"getattr", "setattr", "delattr", "contains", "enter", "exit", "iter", "next",
     "str", "repr", "getitem", "setitem", "len", "eq", "ne", "bool"}

\* the same value, or an exception of the same class (the messages differ)
SameResult(a, b) ==
    IF a.st = "raise" THEN b.st = "raise" /\ a.t = b.t ELSE a = b

SameAsDirect == SameResult(obs.ret, obs.dret) /\ obs.dsame

OwnCase ==
    \/ obs.op = "getattr" /\ obs.name \in InstanceNames(Last)
    \/ obs.op \in {"setattr", "delattr"} /\ obs.name \in PROTECTED_FIELDS
    \/ obs.op = "contains" /\ (~kind.iterable \/ obs.dret = Raise("TypeError", "native"))
    \/ obs.op = "next"
    \/ obs.op = "enter" /\ ~kind.cm
    \/ obs.op = "exit" /\ (obs.hadctx \/ "_ctx" \in Last.handler.get \cup Last.handler.call)

OverrideValue ==
    CASE obs.op = "iter" -> obs.ret = IterVal(OvSeq)
      [] obs.op = "next" -> obs.ret.st = "raise" \/ obs.ret.key \in Range(OvSeq)
      [] obs.op \in {"enter", "exit"} -> TRUE
      [] obs.op = "getattr" -> obs.name \in Last.handler.call \/ obs.ret.t = "ovret"
      [] OTHER -> obs.ret.t = "ovret"

\* C2: an operation with a matching override returns the override's value,
\* and the wrapper itself performs no read, write or delete on the target:
\* the target changes only as the override changes it (the modelled overrides
\* leave it alone).
C2_Claim ==
    (obs.op # "none" /\ obs.matched) => OverrideValue /\ Touched = 0 /\ obs.tsame

\* ------------------------------------------------------------------ C3
\* C3: on a wrapper made with strict=True, a read, write, delete,
\* containment check or iteration request with no registered override raises
\* the strict-mode error and performs no operation on the target.
C3_Claim ==
    ( /\ obs.strict /\ ~obs.matched
      /\ obs.op \in {"getattr", "setattr", "delattr", "contains", "iter"}
      /\ obs.name \notin InstanceNames(Last) \cup PROTECTED_FIELDS )
    => obs.ret = Raise("AttributeError", "strict") /\ Touched = 0 /\ obs.tsame

\* ------------------------------------------------------------------ C4
BothKeys == Last.handler.get \cap Last.handler.call

\* C4 as stated: with a read override f and a call override g under the same
\* key, reading the key returns f(target) and calling it returns g(target, args).
C4_Original ==
    /\ (obs.op = "getattr" /\ obs.name \in BothKeys) => obs.ret = OvRet("get", obs.name)
    /\ (obs.op = "call" /\ obs.name \in BothKeys) => obs.ret = OvRet("call", obs.name)

\* C4 amended: with a read override f and a call override g under the same
\* key, reading the key invokes neither and returns a callable bound to g (f
\* is never reached), and calling it returns g(target, args).
C4_Amended ==
    /\ (obs.op = "getattr" /\ obs.name \in BothKeys) =>
          obs.ret = BoundCall(obs.name) /\ obs.ev = <<>>
    /\ (obs.op = "call" /\ obs.name \in BothKeys) =>
          /\ obs.ret = OvRet("call", obs.name)
          /\ Did("override", "call") = 1 /\ Did("override", "get") = 0

C4_Witness ==
    obs.op = "call" /\ obs.name = "x" /\ "x" \in BothKeys /\ obs.ret = OvRet("call", "x")

\* ------------------------------------------------------------------ C7
IteratesAbcHasZ ==
    kind.iterable /\ Range(kind.seq) = {"a", "b", "c"} /\ THasattr(tgt, "z")

\* C7 as stated: with no contain override, on a target that iterates over
\* a, b, c and has an attribute z: 'a' in wrapper is true, 'z' in wrapper is
\* true (attribute fallback after iteration did not find it), 'q' is false.
C7_Original ==
    (obs.op = "contains" /\ ~obs.matched /\ IteratesAbcHasZ /\ obs.name \in {"a", "z", "q"})
    => obs.ret = BoolVal(obs.name \in {"a", "z"})

\* C7 amended: on that target 'a' in wrapper is true, and both 'z' and 'q'
\* are false: the answer of the target's own membership test is final, also
\* when it is negative; the attribute fallback is taken only when the target
\* is not iterable or its membership test raises TypeError.
C7_Amended ==
    /\ (obs.op = "contains" /\ ~obs.matched /\ IteratesAbcHasZ /\ obs.name \in {"a", "z", "q"})
       => obs.ret = BoolVal(obs.name = "a") /\ Did("target", "hasattr") = 0
    /\ (obs.op = "contains" /\ ~obs.matched /\ Did("target", "hasattr") > 0)
       => (~kind.iterable \/ obs.dret = Raise("TypeError", "native"))

C7_Witness ==
    /\ obs.op = "contains" /\ ~obs.matched /\ IteratesAbcHasZ /\ obs.name = "z"
    /\ obs.ret = BoolVal(FALSE)

\* ------------------------------------------------------------------ C10
\* C10: every request for a fresh iterator invokes the iterator override
\* exactly once and yields the override's complete sequence, whatever
\* traversals and next calls came before, and leaves the wrapper's
\* next-element cursor as it was.
C10_FreshIterator ==
    (obs.op = "iter" /\ Last.handler.iterator) =>
        /\ obs.ret = IterVal(OvSeq)
        /\ Did("override", "iterator") = 1
        /\ Last.iter = obs.cur0

\* a fresh traversal asked for while the cursor is part-way through
C10_Witness ==
    /\ obs.op = "iter" /\ Last.handler.iterator
    /\ Last.iter.live /\ Len(Last.iter.rest) = 1
    /\ obs.ret = IterVal(OvSeq)

\* ------------------------------------------- the scoped-resource protocol
\* hasattr(self, "_ctx"): the wrapper's own test for an open context
IsOpen(p) == SelfAttr(p, Start, "_ctx").ret.st = "ok"

CtxHandlers == {ContextOnly}

InitCtx == \E sc \in Kinds \X CtxHandlers \X {FALSE} : InitWith(sc)

NextCtx ==
    \/ \E w \in DOMAIN px, ovOut \in Outcomes, enOut \in Outcomes : Enter(w, ovOut, enOut)
    \/ \E w \in DOMAIN px, exOut \in ExitOutcomes : Exit(w, exOut)

SpecCtx == InitCtx /\ [][NextCtx]_vars

\* which context object the last operation's context override produced
Produced ==
    {obs.ev[i].id : i \in {j \in 1..Len(obs.ev) :
                             obs.ev[j].on = "override" /\ obs.ev[j].e = "context"
                             /\ obs.ev[j].id > 0}}

DidOn(e, id) ==
    Cardinality({i \in 1..Len(obs.ev) :
                   obs.ev[i].on = "ctx" /\ obs.ev[i].e = e /\ obs.ev[i].id = id})

\* ------------------------------------------------------------------ C5
\* C5: with a context override, in alternating acquire/release pairs: an
\* acquire (made with nothing outstanding) invokes the override once and
\* enter once on the object it produced; the release that follows a
\* successful acquire invokes exit once on that same object, returns what
\* exit returned, and leaves the wrapper without a stored object.
C5_Claim ==
    /\ (obs.op = "enter" /\ Last.handler.context /\ obs.washeld = 0) =>
          /\ Did("override", "context") = 1
          /\ \A id \in Produced : DidOn("enter", id) = 1 /\ ctxs[id].ent = 1
    /\ (obs.op = "exit" /\ Last.handler.context /\ obs.washeld > 0) =>
          /\ DidOn("exit", obs.washeld) = 1 /\ ctxs[obs.washeld].exi = 1
          /\ obs.ret \in {ExitRet(TRUE), ExitRet(FALSE), Raise("ExitError", "ctx")}
          /\ ~IsOpen(Last)

\* ------------------------------------------------------------------ C6
\* C6: a wrapper with a context override holds a stored context object
\* exactly when an acquire succeeded on it and has not been released since:
\* a failed acquire (override or enter raised) leaves it idle, a release
\* returns it to idle even when exit raises.
C6_Claim ==
    \A w \in DOMAIN px : px[w].handler.context => (IsOpen(px[w]) <=> obs.held[w] > 0)

\* ------------------------------------------------ is_proxy, unwrap, wrap
\* du.heap holds the objects: marked is whether the object answers true to
\* getattr(o, "__is_proxy__", False), target is the object its target
\* attribute refers to (0: it has none). wrapped, of, base and depth are
\* history: whether wrap() built it, around what, and what lies innermost.
IsProxyObj(heap, o) == heap[o].marked

Found(o) == [ok |-> TRUE, v |-> o]
Missing == [ok |-> FALSE, v |-> 0]

\* unwrap(o): one level; an object marked as a wrapper that has no target
\* attribute raises AttributeError
Unwrap(heap, o) ==
    IF IsProxyObj(heap, o)
    THEN IF heap[o].target = 0 THEN Missing ELSE Found(heap[o].target)
    ELSE Found(o)

\* wrap(x, handler): the object it adds
Wrapped(heap, x) ==
    [marked |-> TRUE, target |-> x, wrapped |-> TRUE, of |-> x,
     base |-> IF heap[x].wrapped THEN heap[x].base ELSE x,
     depth |-> IF heap[x].wrapped THEN heap[x].depth + 1 ELSE 1]

BaseObj(marked, target) ==
    [marked |-> marked, target |-> target, wrapped |-> FALSE, of |-> 0,
     base |-> 0, depth |-> 0]

\* a deep_unwrap that gives up after the first level
DeepStep_OneLevel(run) ==
    IF IsProxyObj(run.heap, run.cur)
    THEN LET u == Unwrap(run.heap, run.cur)
         IN IF u.ok THEN [run EXCEPT !.pc = "done", !.ret = u.v]
            ELSE [run EXCEPT !.pc = "raised", !.err = "AttributeError"]
    ELSE [run EXCEPT !.pc = "done", !.ret = run.cur]

\* one turn of deep_unwrap's loop; seen is history, the code keeps none
DeepStep(run) ==
    IF IsProxyObj(run.heap, run.cur)
    THEN LET u == Unwrap(run.heap, run.cur)
         IN IF u.ok THEN [run EXCEPT !.cur = u.v, !.seen = @ \cup {run.cur}]
            ELSE [run EXCEPT !.pc = "raised", !.err = "AttributeError"]
    ELSE [run EXCEPT !.pc = "done", !.ret = run.cur]

InitUnwrap ==
    /\ kind = PlainKind
    /\ tgt = InitTarget(PlainKind)
    /\ ctxs = <<>>
    /\ px = [w \in Wrappers |-> NewProxy(NoOverrides, FALSE, FALSE)]
    /\ obs = NoObs
    /\ wr = NoWrap
    /\ hist = NoHist
    /\ \E heap \in [1..MaxBase -> {BaseObj(mk, t) : mk \in BOOLEAN, t \in 0..MaxBase}] :
           du = [NoRun EXCEPT !.heap = heap]

Objs == 1..Len(du.heap)

\* wrap(x, h): __post_init__ rejects an h that is no Handler
WrapObj(x, isHandler) ==
    /\ du.pc # "loop"
    /\ Len(du.heap) < MaxObjs
    /\ du' = IF isHandler
             THEN [du EXCEPT !.heap = Append(@, Wrapped(du.heap, x)),
                             !.pc = "done", !.fn = "wrap", !.start = x,
                             !.ret = Len(du.heap) + 1, !.err = ""]
             ELSE [du EXCEPT !.pc = "raised", !.fn = "wrap", !.start = x,
                             !.ret = 0, !.err = "TypeError"]
    /\ UNCHANGED <<kind, tgt, ctxs, px, obs, wr, hist>>

CallUnwrap(x) ==
    /\ du.pc # "loop"
    /\ LET u == Unwrap(du.heap, x)
       IN du' = [du EXCEPT !.pc = IF u.ok THEN "done" ELSE "raised",
                           !.fn = "unwrap", !.start = x, !.cur = x, !.seen = {},
                           !.ret = u.v, !.err = IF u.ok THEN "" ELSE "AttributeError"]
    /\ UNCHANGED <<kind, tgt, ctxs, px, obs, wr, hist>>

CallDeepUnwrap(x) ==
    /\ du.pc # "loop"
    /\ du' = [du EXCEPT !.pc = "loop", !.fn = "deep", !.start = x, !.cur = x,
                        !.seen = {}, !.ret = 0, !.err = ""]
    /\ UNCHANGED <<kind, tgt, ctxs, px, obs, wr, hist>>

DeepLoop ==
    /\ du.pc = "loop"
    /\ du' = DeepStep(du)
    /\ UNCHANGED <<kind, tgt, ctxs, px, obs, wr, hist>>

NextUnwrap ==
    \/ \E x \in Objs, isHandler \in BOOLEAN : WrapObj(x, isHandler)
    \/ \E x \in Objs : CallUnwrap(x)
    \/ \E x \in Objs : CallDeepUnwrap(x)
    \/ DeepLoop

SpecUnwrap == InitUnwrap /\ [][NextUnwrap]_vars

\* ------------------------------------------------------------------ C8
\* C8: deep_unwrap terminates on every input: once the chain it follows
\* leads back to an object it already visited, it has raised a cycle error
\* (it is not still looping).
C8_Claim == ~(du.pc = "loop" /\ du.cur \in du.seen)

\* ------------------------------------------------------------------ C9
\* a non-wrapper: not built by wrap and not marked as a wrapper
Plain(o) == ~du.heap[o].wrapped /\ ~du.heap[o].marked

\* wrap upon wrap around a non-wrapper (or the non-wrapper itself)
Innermost(o) == IF du.heap[o].wrapped THEN du.heap[o].base ELSE o

\* C9: for a non-wrapper x, unwrap(wrap(x, h)) is x (one level of a nest of
\* wrappers), unwrap(x) is x, is_proxy(wrap(x, h)) is true, is_proxy(x) is
\* false, and deep_unwrap of n >= 0 nested wrappers around x returns x.
C9_RoundTrip ==
    /\ \A o \in Objs : du.heap[o].wrapped =>
          IsProxyObj(du.heap, o) /\ Unwrap(du.heap, o) = Found(du.heap[o].of)
    /\ \A o \in Objs : Plain(o) => ~IsProxyObj(du.heap, o) /\ Unwrap(du.heap, o) = Found(o)
    /\ (du.fn = "wrap" /\ du.pc = "done") =>
          du.heap[du.ret].wrapped /\ du.heap[du.ret].of = du.start
    /\ (du.fn = "unwrap" /\ du.heap[du.start].wrapped) =>
          du.pc = "done" /\ du.ret = du.heap[du.start].of
    /\ (du.fn = "unwrap" /\ Plain(du.start)) => du.pc = "done" /\ du.ret = du.start
    /\ (du.fn = "deep" /\ Plain(Innermost(du.start))) =>
          /\ du.pc \in {"loop", "done"}
          /\ du.pc = "done" => du.ret = Innermost(du.start)

\* deep_unwrap of a wrapper of a wrapper of a non-wrapper has returned it
C9_Witness ==
    /\ du.fn = "deep" /\ du.pc = "done"
    /\ du.heap[du.start].wrapped /\ du.heap[du.start].depth = 2
    /\ Plain(du.heap[du.start].base) /\ du.ret = du.heap[du.start].base

\* ------------------------------------------------- the protected fields
\* a registry with write and delete overrides registered under protected
\* names as well as under an ordinary one
ProtOverrides ==
    [NoOverrides EXCEPT !.set = {"x", "target", "_iter"},
                        !.delete = {"x", "target", "_iter"}]

ProtKeys == PROTECTED_FIELDS \cup {"x"}

\* the wrapper attributes a caller reads back
ReadKeys == {"x", "target", "handler", "_iter"}

InitProt == \E sc \in Kinds \X {ProtOverrides} \X {FALSE} : InitWith(sc)

NextProt ==
    \/ \E w \in DOMAIN px, name \in ReadKeys : GetAttr(w, name)
    \/ \E w \in DOMAIN px, name \in ProtKeys, v \in Vals : SetAttr(w, name, v)
    \/ \E w \in DOMAIN px, name \in ProtKeys : DelAttr(w, name)
    \/ \E w \in DOMAIN px : NextElem(w)

SpecProt == InitProt /\ [][NextProt]_vars

\* ------------------------------------------------------------------ C11
\* C11: writing or deleting a protected field name through the wrapper
\* raises the protected-field error without invoking any override (also when
\* a set or delete override is registered under that name), leaves the
\* target and the wrapper's cursor as they were, and the wrapper's handler
\* and target references stay what wrap bound, whatever operations are made.
C11_Claim ==
    /\ (obs.op \in {"setattr", "delattr"} /\ obs.name \in PROTECTED_FIELDS) =>
          /\ obs.ret = Raise("AttributeError", "protected")
          /\ obs.ev = <<>>
          /\ obs.tsame
          /\ Last.iter = obs.cur0
    /\ \A w \in DOMAIN px :
          /\ px[w].handler = ProtOverrides
          /\ SelfAttr(px[w], Start, "target").ret = TargetRef
          /\ SelfAttr(px[w], Start, "handler").ret = HandlerRef

\* a write of target was refused although a set override is registered
\* under that name, after the cursor had been created
C11_Witness ==
    /\ obs.op = "setattr" /\ obs.name = "target" /\ "target" \in Last.handler.set
    /\ obs.ret = Raise("AttributeError", "protected")
    /\ Last.iter.live

\* ------------------------------------------------------ construction: wrap
\* What is handed to wrap as its handler: a well-formed Handler, a Handler
\* with a non-mapping in a keyed field (Handler(get=5)), a Handler with a
\* non-invocable override value (Handler(get={"x": 3})), or a value that is
\* no Handler at all.
HandlerShapes == {"valid", "nonmapping", "noninvocable", "nothandler"}

Malformed == {"nonmapping", "noninvocable"}

\* a hook argument: absent, a bare callable, or a (callable, extra) pair
HookForms == {"none", "bare", "pair"}

\* Handler(...): the dataclass stores whatever it is given; ok is whether
\* the construction returned
NewHandler(shape) == [ok |-> TRUE, shape |-> shape]

\* call_hook(hook, *args): the call it makes, if any; bound is whether the
\* wrapper's target and handler are bound at that moment
HookCall(which, form, bound) ==
    IF form = "none" THEN <<>>
    ELSE << [hook |-> which, bound |-> bound,
             extra |-> IF form = "pair" THEN "given" ELSE "empty"] >>

\* Proxy.__post_init__: only the handler's class is looked at
PostInitOk(shape) == shape # "nothandler"

\* the first operation that reaches the override: handler.get.get(name)
\* on a non-mapping, func(target) on a non-invocable
FirstUse(shape) ==
    CASE shape = "nonmapping" -> "AttributeError"
      [] shape = "noninvocable" -> "TypeError"
      [] OTHER -> ""

InitWrap ==
    /\ kind = PlainKind
    /\ tgt = InitTarget(PlainKind)
    /\ ctxs = <<>>
    /\ px = [w \in Wrappers |-> NewProxy(NoOverrides, FALSE, FALSE)]
    /\ obs = NoObs
    /\ du = NoRun
    /\ wr = NoWrap
    /\ hist = NoHist

WrapIdle == UNCHANGED <<kind, tgt, ctxs, px, obs, du, hist>>

\* h = Handler(...), or some other value, then wrap(target, h, pre_hook=..,
\* post_hook=..) is entered
CallWrap(shape, pre, post) ==
    /\ wr.pc \in {"idle", "done", "raised", "used"}
    /\ LET h == NewHandler(shape)
       IN wr' = IF h.ok
                THEN [pc |-> "pre", h |-> h.shape, pre |-> pre, post |-> post,
                      bound |-> FALSE, log |-> <<>>, err |-> ""]
                ELSE [NoWrap EXCEPT !.pc = "raised", !.h = shape, !.err = "TypeError"]
    /\ WrapIdle

\* line 333: call_hook(pre_hook, target, handler)
PreHook(out) ==
    /\ wr.pc = "pre"
    /\ out = "raise" => wr.pre # "none"
    /\ wr' = [wr EXCEPT !.log = @ \o HookCall("pre", wr.pre, wr.bound),
                        !.pc = IF out = "raise" THEN "raised" ELSE "bind",
                        !.err = IF out = "raise" THEN "HookError" ELSE ""]
    /\ WrapIdle

\* lines 335-342: Proxy.__new__ and the object.__setattr__ calls
Bind ==
    /\ wr.pc = "bind"
    /\ wr' = [wr EXCEPT !.bound = TRUE, !.pc = "validate"]
    /\ WrapIdle

\* line 344: proxy.__post_init__()
Validate ==
    /\ wr.pc = "validate"
    /\ wr' = IF PostInitOk(wr.h) THEN [wr EXCEPT !.pc = "post"]
             ELSE [wr EXCEPT !.pc = "raised", !.err = "TypeError"]
    /\ WrapIdle

\* lines 346-348: call_hook(post_hook, proxy); return proxy
PostHook(out) ==
    /\ wr.pc = "post"
    /\ out = "raise" => wr.post # "none"
    /\ wr' = [wr EXCEPT !.log = @ \o HookCall("post", wr.post, wr.bound),
                        !.pc = IF out = "raise" THEN "raised" ELSE "done",
                        !.err = IF out = "raise" THEN "HookError" ELSE ""]
    /\ WrapIdle

\* the first read through the returned wrapper of a key the get field covers
UseOverride ==
    /\ wr.pc = "done"
    /\ wr' = [wr EXCEPT !.pc = "used", !.err = FirstUse(wr.h)]
    /\ WrapIdle

NextWrap ==
    \/ \E shape \in HandlerShapes, pre \in HookForms, post \in HookForms :
          CallWrap(shape, pre, post)
    \/ \E out \in Outcomes : PreHook(out)
    \/ Bind
    \/ Validate
    \/ \E out \in Outcomes : PostHook(out)
    \/ UseOverride

SpecWrap == InitWrap /\ [][NextWrap]_vars

\* ------------------------------------------------------------------ C12
\* C12: a malformed registry (a non-mapping in a keyed field, a
\* non-invocable override value) is rejected when the Handler is built or,
\* at the latest, by wrap: no wrap call is ever under way, finished or in
\* use with such a handler, and no error first shows at an operation.
C12_Claim ==
    /\ wr.h \in Malformed => wr.pc \in {"idle", "raised"} /\ wr.log = <<>>
    /\ wr.pc = "used" => wr.err = ""

\* ------------------------------------------------------------------ C13
\* what the hooks asked for make of a complete construction
ExpectedLog ==
    HookCall("pre", wr.pre, FALSE) \o HookCall("post", wr.post, TRUE)

\* C13: wrap validates the handler before any hook runs: when wrap rejects
\* the handler no hook was invoked; when wrap returns, pre_hook (if given)
\* was invoked exactly once before target and handler were bound and
\* post_hook (if given) exactly once after, each with its extra mapping.
C13_Claim ==
    /\ (wr.pc = "raised" /\ wr.err = "TypeError") => wr.log = <<>>
    /\ wr.pc = "done" => wr.log = ExpectedLog

\* ------------------------------------------------------- identity spoofing
\* a class object: that of the target (named by its kind) or Proxy
ClassVal(name) == R("ok", "type", 0, name, "", <<>>)

\* bool(v); ovTruth is the truth value of what an override returned
Truthy(v, ovTruth) ==
    CASE v.t = "bool" -> v.n = 1
      [] v.t = "none" -> FALSE
      [] v.t = "ovret" -> ovTruth
      [] OTHER -> TRUE

\* getattr(self, name, False) for a name that is no class attribute: the
\* instance attribute if wrap bound one, else __getattr__, else the default
GetattrDefault(p, m, name) ==
    IF name \in InstanceNames(p) THEN [ret |-> BoolVal(TRUE), m |-> m]
    ELSE LET g == PGetattr(p, m, name)
         IN IF g.ret.st = "raise" /\ g.ret.t = "AttributeError"
            THEN [ret |-> BoolVal(FALSE), m |-> g.m]
            ELSE g

\* wrapper.__class__ through Proxy.__getattribute__
PClass(p, m, ovTruth) ==
    LET s == GetattrDefault(p, m, "__spoof_class__")
    IN IF s.ret.st = "raise" THEN s
       ELSE IF Truthy(s.ret, ovTruth) THEN [ret |-> ClassVal(kind.name), m |-> s.m]
       ELSE [ret |-> ClassVal("Proxy"), m |-> s.m]

\* type(wrapper): the interpreter's own answer, no method of the wrapper runs
PType(p, m) == [ret |-> ClassVal("Proxy"), m |-> m]

TClass(T) == [ret |-> ClassVal(kind.name), tgt |-> T]

ClassOf(w, ovTruth) ==
    Commit(w, "class", "__class__", PClass(px[w], Start, ovTruth), TClass(tgt),
           FALSE, px[w].iter)

TypeOf(w) ==
    Commit(w, "type", "", PType(px[w], Start), TClass(tgt), FALSE, px[w].iter)

\* a plain object that happens to carry an attribute named __spoof_class__
MarkedKind == [PlainKind EXCEPT !.name = "marked"]

\* a registry with a read override under the name of the spoof flag
SpoofGet == [NoOverrides EXCEPT !.get = {"__spoof_class__"}]

SpoofCall == [NoOverrides EXCEPT !.call = {"__spoof_class__"}]

SpoofHandlers == {NoOverrides, AllOverrides, SpoofGet, SpoofCall}

SpoofKinds == {SampleKind, PlainKind, MarkedKind}

InitSpoof ==
    \E K \in SpoofKinds, h \in SpoofHandlers, spoof \in BOOLEAN :
        /\ kind = K
        /\ tgt = IF K = MarkedKind
                 THEN [InitTarget(K) EXCEPT !.attrs = Put(@, "__spoof_class__", BoolVal(TRUE))]
                 ELSE InitTarget(K)
        /\ ctxs = <<>>
        /\ px = [w \in Wrappers |-> NewProxy(h, FALSE, spoof)]
        /\ obs = NoObs
        /\ du = NoRun
        /\ wr = NoWrap
        /\ hist = NoHist

NextSpoof ==
    \/ \E w \in DOMAIN px, ovTruth \in BOOLEAN : ClassOf(w, ovTruth)
    \/ \E w \in DOMAIN px : TypeOf(w)
    \/ \E w \in DOMAIN px, name \in {"x", "__spoof_class__"}, v \in Vals : SetAttr(w, name, v)
    \/ \E w \in DOMAIN px, name \in {"x", "__spoof_class__"} : DelAttr(w, name)

SpecSpoof == InitSpoof /\ [][NextSpoof]_vars

\* ------------------------------------------------------------------ C14
\* C14: for every target and handler, wrapper.__class__ is the target's
\* class on a wrapper made with spoof_class=True and Proxy on a wrapper
\* made with spoof_class=False, and type(wrapper) is Proxy on both.
C14_Claim ==
    /\ obs.op = "class" =>
          obs.ret = IF Last.spoof THEN ClassVal(kind.name) ELSE ClassVal("Proxy")
    /\ obs.op = "type" => obs.ret = ClassVal("Proxy")

\* ------------------------------------------------------------------ C15
\* how often the last operation asked for an iterator, of the override or
\* of the target
Requests == Did("override", "iterator") + Did("target", "iter")

\* what the wrapper's iterator source yields
Source == IF Last.handler.iterator THEN OvSeq ELSE kind.seq

Suffixes(s) == {SubSeq(s, k + 1, Len(s)) : k \in 0..Len(s)}

\* C15: the next calls on one wrapper share one cursor. The call that finds
\* no cursor asks the source for an iterator once and, when it gets one,
\* returns its first element; every later call asks for none, returns the
\* element after the one returned before, and signals StopIteration once
\* the elements are used up and on every call after that; no other
\* operation moves the cursor. So the k-th call returns the source's k-th
\* element.
C15_SharedCursor ==
    obs.op # "none" =>
        /\ (obs.op = "next" /\ ~obs.cur0.live) =>
              /\ Requests = 1
              /\ \/ obs.ret.st = "raise" /\ obs.ret.t # "StopIteration" /\ ~Last.iter.live
                 \/ /\ obs.ret = ElemVal(Head(Source))
                    /\ Last.iter = [live |-> TRUE, rest |-> Tail(Source)]
        /\ (obs.op = "next" /\ obs.cur0.live /\ obs.cur0.rest # <<>>) =>
              /\ Requests = 0
              /\ obs.ret = ElemVal(Head(obs.cur0.rest))
              /\ Last.iter = [live |-> TRUE, rest |-> Tail(obs.cur0.rest)]
        /\ (obs.op = "next" /\ obs.cur0.live /\ obs.cur0.rest = <<>>) =>
              /\ Requests = 0
              /\ obs.ret = Raise("StopIteration", "native")
              /\ Last.iter = obs.cur0
        /\ obs.op # "next" => Last.iter = obs.cur0
        /\ Last.iter.live => Last.iter.rest \in Suffixes(Source)

\* a next call on the used-up cursor of an iterator override: end of
\* sequence, and the override was not asked again
C15_Witness ==
    /\ obs.op = "next" /\ Last.handler.iterator
    /\ obs.cur0.live /\ obs.cur0.rest = <<>>
    /\ obs.ret = Raise("StopIteration", "native") /\ Requests = 0

\* --------------------------------------- sequences of acquires and releases
\* an acquire / a release made by a caller who keeps count of them
Acquire(w, ovOut, enOut) ==
    /\ hist.acq < MaxAcq
    /\ px[w].handler.context => Len(ctxs) < MaxCtx
    /\ Apply(w, "enter", "", PEnter(px[w], Start, ovOut, enOut), TEnter(tgt),
             px[w].handler.context, px[w].iter)
    /\ hist' = [hist EXCEPT !.acq = @ + 1]

Release(w, exOut) ==
    /\ hist.rel < hist.acq
    /\ Apply(w, "exit", "", PExit(px[w], Start, exOut), TExit(tgt),
             px[w].handler.context, px[w].iter)
    /\ hist' = [hist EXCEPT !.rel = @ + 1]

NextBal ==
    \/ \E w \in DOMAIN px, ovOut \in Outcomes, enOut \in Outcomes : Acquire(w, ovOut, enOut)
    \/ \E w \in DOMAIN px, exOut \in ExitOutcomes : Release(w, exOut)

SpecBal == InitCtx /\ [][NextBal]_vars

\* ------------------------------------------------------------------ C16
\* the context objects whose enter was invoked
Entered == {id \in 1..Len(ctxs) : ctxs[id].ent > 0}

\* C16: on a wrapper with a context override, whenever as many releases as
\* acquires have been made, every context object whose enter was invoked has
\* had its exit invoked exactly once (also when an acquire was made while
\* the wrapper was open), and no release reaches the target's own exit while
\* an entered context object has not been exited.
C16_Claim ==
    /\ hist.acq = hist.rel => \A id \in Entered : ctxs[id].exi = 1
    /\ (obs.op = "exit" /\ Did("target", "exit") > 0) =>
          \A id \in Entered : ctxs[id].exi > 0

\* ------------------------------------------- two wrappers around one target
Pair == {1, 2}

InitPair ==
    \E K \in Kinds :
        /\ kind = K
        /\ tgt = InitTarget(K)
        /\ ctxs = <<>>
        /\ px = [w \in Pair |-> NewProxy(ContextOnly, FALSE, FALSE)]
        /\ obs = [NoObs EXCEPT !.held = [w \in Pair |-> 0]]
        /\ du = NoRun
        /\ wr = NoWrap
        /\ hist = NoHist

NextPair ==
    \/ \E w \in DOMAIN px, ovOut \in Outcomes, enOut \in Outcomes : Enter(w, ovOut, enOut)
    \/ \E w \in DOMAIN px, exOut \in ExitOutcomes : Exit(w, exOut)
    \/ \E w \in DOMAIN px : GetAttr(w, "x")

SpecPair == InitPair /\ [][NextPair]_vars

\* ------------------------------------------------------------------ C17
\* the wrappers other than the one that made the last operation
Peers == DOMAIN px \ {obs.w}

\* C17: the open context is kept by the wrapper that acquired it: with two
\* wrappers around one target, an acquire on one does not make the other
\* open, a release on one neither invokes exit on the context object the
\* other acquired nor makes the other forget it, and neither acquire nor
\* release adds an attribute to the target or removes one.
C17_Claim ==
    /\ obs.op = "enter" => \A b \in Peers : IsOpen(px[b]) => obs.hadctx
    /\ obs.op = "exit" =>
          \A b \in Peers : obs.held[b] > 0 =>
              DidOn("exit", obs.held[b]) = 0 /\ IsOpen(px[b])
    /\ obs.op \in {"enter", "exit"} => (THasattr(tgt, "_ctx") <=> obs.hadctx)

\* --------------------------------------------- proxy3: the scoped resource
\* handler.context(target): the context object it returns this time
P3Context(m, ovOut) ==
    IF ovOut = "raise"
    THEN [ret |-> Raise("OvError", "context"), m |-> Ev(m, "override", "context", 0)]
    ELSE LET id == Len(m.ctxs) + 1
         IN [ret |-> CtxVal(id),
             m |-> Ev([m EXCEPT !.ctxs = Append(@, [ent |-> 0, exi |-> 0])],
                      "override", "context", id)]

\* proxy3's Proxy.__enter__
P3Enter(p, m, ovOut, enOut) ==
    IF p.handler.context
    THEN LET c == P3Context(m, ovOut)
         IN IF c.ret.st = "raise" THEN c ELSE CallEnter(c.m, c.ret, enOut)
    ELSE IF kind.cm THEN Native(m, TEnter(m.tgt), "enter")
    ELSE Fail(m, "TypeError", "nocm")

\* proxy3's Proxy.__exit__
P3Exit(p, m, ovOut, exOut) ==
    IF p.handler.context
    THEN LET c == P3Context(m, ovOut)
         IN IF c.ret.st = "raise" THEN c ELSE CallExit(c.m, c.ret, exOut)
    ELSE IF kind.cm THEN Native(m, TExit(m.tgt), "exit")
    ELSE Fail(m, "TypeError", "nocm")

Enter3(w, ovOut, enOut) ==
    /\ px[w].handler.context => Len(ctxs) < MaxCtx3
    /\ Commit(w, "enter", "", P3Enter(px[w], Start, ovOut, enOut), TEnter(tgt),
              px[w].handler.context, px[w].iter)

Exit3(w, ovOut, exOut) ==
    /\ px[w].handler.context => Len(ctxs) < MaxCtx3
    /\ Commit(w, "exit", "", P3Exit(px[w], Start, ovOut, exOut), TExit(tgt),
              px[w].handler.context, px[w].iter)

InitCtx3 == \E sc \in Kinds \X {ContextOnly, NoOverrides} \X {FALSE} : InitWith(sc)

NextCtx3 ==
    \/ \E w \in DOMAIN px, ovOut \in Outcomes, enOut \in Outcomes : Enter3(w, ovOut, enOut)
    \/ \E w \in DOMAIN px, ovOut \in Outcomes, exOut \in ExitOutcomes : Exit3(w, ovOut, exOut)

SpecCtx3 == InitCtx3 /\ [][NextCtx3]_vars

\* ------------------------------------------------------------------ C18
\* C18: in proxy3, with a context override, the release that follows a
\* successful acquire does not invoke the context override again (the pair
\* invokes it once, at the acquire) and invokes exit once on the object
\* whose enter the acquire invoked.
C18_Claim ==
    (obs.op = "exit" /\ Last.handler.context /\ obs.washeld > 0) =>
        /\ Did("override", "context") = 0
        /\ DidOn("exit", obs.washeld) = 1

\* ------------------------------------------------------- proxy3: unwrap
\* unwrap's default max_depth
MaxDepth3 == 10

\* isinstance(obj, Proxy): true of the objects whose class is Proxy
IsProxy3(heap, o) == heap[o].wrapped

\* one turn of unwrap's loop. The code's depth counter is Cardinality(seen):
\* both start empty and grow together, one per turn.
Unwrap3Step(run) ==
    IF IsProxy3(run.heap, run.cur) /\ Cardinality(run.seen) < MaxDepth3
    THEN IF run.cur \in run.seen
         THEN [run EXCEPT !.pc = "raised", !.err = "ValueError"]
         ELSE [run EXCEPT !.cur = run.heap[run.cur].target, !.seen = @ \cup {run.cur}]
    ELSE [run EXCEPT !.pc = "done", !.ret = run.cur]

InitUnwrap3 ==
    /\ kind = PlainKind
    /\ tgt = InitTarget(PlainKind)
    /\ ctxs = <<>>
    /\ px = [w \in Wrappers |-> NewProxy(NoOverrides, FALSE, FALSE)]
    /\ obs = NoObs
    /\ du = [NoRun EXCEPT !.heap = <<BaseObj(FALSE, 0)>>]
    /\ wr = NoWrap
    /\ hist = NoHist

Unwrap3Idle == UNCHANGED <<kind, tgt, ctxs, px, obs, wr, hist>>

\* Proxy.wrap(top, handler) around the outermost object so far
Wrap3 ==
    /\ du.pc # "loop"
    /\ Len(du.heap) < MaxChain
    /\ du' = [du EXCEPT !.heap = Append(@, Wrapped(du.heap, Len(du.heap))),
                        !.pc = "idle", !.fn = "wrap3"]
    /\ Unwrap3Idle

\* p.target = o on the innermost Proxy p: __setattr__ stores it on the wrapper
SetTarget3(p, o) ==
    /\ du.pc # "loop"
    /\ IsProxy3(du.heap, p) /\ ~IsProxy3(du.heap, du.heap[p].of)
    /\ du' = [du EXCEPT !.heap[p].target = o, !.pc = "idle", !.fn = "settarget3"]
    /\ Unwrap3Idle

CallUnwrap3(x) ==
    /\ du.pc # "loop"
    /\ du' = [du EXCEPT !.pc = "loop", !.fn = "unwrap3", !.start = x, !.cur = x,
                        !.seen = {}, !.ret = 0, !.err = ""]
    /\ Unwrap3Idle

Unwrap3Loop ==
    /\ du.pc = "loop"
    /\ du' = Unwrap3Step(du)
    /\ Unwrap3Idle

NextUnwrap3 ==
    \/ Wrap3
    \/ \E p \in Objs, o \in Objs : SetTarget3(p, o)
    \/ \E x \in Objs : CallUnwrap3(x)
    \/ Unwrap3Loop

SpecUnwrap3 == InitUnwrap3 /\ [][NextUnwrap3]_vars

\* ------------------------------------------------------------------ C19
\* where the chain of targets from o ends: the first object that is no
\* Proxy, or 0 when the chain runs in a cycle
RECURSIVE ChainEnd(_, _, _)
ChainEnd(heap, o, fuel) ==
    IF ~IsProxy3(heap, o) THEN o
    ELSE IF fuel = 0 THEN 0
    ELSE ChainEnd(heap, heap[o].target, fuel - 1)

\* C19: proxy3's unwrap never returns a Proxy: on a chain of nested Proxy
\* objects of any length it returns the innermost object that is no Proxy,
\* and on a chain that runs in a cycle, of any length, it raises ValueError.
C19_Claim ==
    (du.fn = "unwrap3" /\ du.pc \in {"done", "raised"}) =>
        LET e == ChainEnd(du.heap, du.start, Len(du.heap))
        IN IF e = 0 THEN du.pc = "raised" /\ du.err = "ValueError"
           ELSE du.pc = "done" /\ du.ret = e /\ ~IsProxy3(du.heap, du.ret)

====
